---- MODULE Spec2Model ----
EXTENDS Integers, Sequences, FiniteSets, TLC

(***************************************************************************)
(* Model of the datastar package: the SSE encoder (DatastarEvent) and the  *)
(* two streaming loops (DatastarStreamer.stream, create_sse_stream).       *)
(*                                                                         *)
(* A Python string is a sequence of tokens; the newline is the token NL,   *)
(* so that the lines of a block are found by splitting the block, and the  *)
(* empty string is the empty sequence.                                     *)
(***************************************************************************)

VARIABLES
    kind,             \* per task: "none", "event", "gated" or "pump"
    pc,               \* per task: where the coroutine stands
    event,            \* per task: the DatastarEvent being built or iterated
    idx,              \* per task: blocks the event's generator has yielded
    out,              \* per task: the blocks handed downstream, with their time
    err,              \* per task: the exception surfaced to the consumer
    src,              \* per task: the payload source the loop pulls from
    cfg,              \* per task: the loop's parameters
    last_yield_time,  \* per task: local of DatastarStreamer.stream
    current_time,     \* per task: local of DatastarStreamer.stream
    lastEv,           \* per task: what the task's latest step did
    fails,            \* per task: the failures of pulls and of encodings so far
    sleep_until,      \* per task: when the asyncio.sleep under way is due
    now,              \* the event loop's clock
    gate              \* the state condition_callable reads

vars == <<kind, pc, event, idx, out, err, src, cfg, last_yield_time,
          current_time, lastEv, fails, sleep_until, now, gate>>

(***************************************************************************)
(* Bounds                                                                  *)
(***************************************************************************)
MaxTextLen == 2     \* longest fragment / signal text, in tokens
MaxItems == 2       \* longest list content
MaxTime == 2        \* the clock stops advancing here
MaxInterval == 1    \* largest interval a loop is built with
MaxDelay == 1       \* longest time one pull, or one hand-off downstream, takes
MaxPulls == 2       \* pulls a source answers before it only ends
MaxPullsTwo == 1    \* the same, for each source when two loops run together

Tasks == {1, 2}

\* the values a loop is started with: the clock then, and sleep_interval
StartTimes == {0, 1}
SleepIntervals == {0, 1}
\* asyncio.sleep returns after its duration or later
Overshoots == {0, 1}

NL == "\n"

(***************************************************************************)
(* Python values                                                           *)
(***************************************************************************)
PyNone == [t |-> "NoneType"]
PyStr(s) == [t |-> "str", v |-> s]
PyInt(n) == [t |-> "int", v |-> n]
PyBool(b) == [t |-> "bool", v |-> b]
PyDict(kv) == [t |-> "dict", v |-> kv]
PyList(xs) == [t |-> "list", v |-> xs]
PyObject == [t |-> "object"]

\* class EventType(str, Enum)
FRAGMENT == "datastar-fragment"
SIGNAL == "datastar-signal"
EventType == {FRAGMENT, SIGNAL}

\* class MergeType(str, Enum): the members' values
MergeType ==
    {"morph_element", "inner_element", "outer_element", "prepend_element",
     "append_element", "before_element", "after_element", "delete_element",
     "upsert_attributes"}
PyMerge(m) == [t |-> "MergeType", v |-> m]

\* isinstance(x, str): MergeType mixes str in
IsStr(x) == x.t \in {"str", "MergeType"}
IsDict(x) == x.t = "dict"
IsList(x) == x.t = "list"

\* bool(x), as `if x` and `x or y` take it
Truthy(x) ==
    CASE x.t = "NoneType" -> FALSE
      [] x.t = "str" -> Len(x.v) > 0
      [] x.t = "MergeType" -> TRUE
      [] x.t = "int" -> x.v # 0
      [] x.t = "bool" -> x.v
      [] x.t = "dict" -> Len(x.v) > 0
      [] x.t = "list" -> Len(x.v) > 0
      [] OTHER -> TRUE

\* a or b
PyOr(a, b) == IF Truthy(a) THEN a ELSE b

\* k in d, d.get(k): a dict is its items in insertion order
DictHas(d, k) == \E i \in 1..Len(d.v) : d.v[i][1] = k
DictGet(d, k) ==
    IF DictHas(d, k)
    THEN d.v[CHOOSE i \in 1..Len(d.v) : d.v[i][1] = k][2]
    ELSE PyNone

\* str(x), as an f-string field formats it (an enum member as Class.member,
\* the member standing here by its value)
PyFormat(x) ==
    CASE x.t = "str" -> x.v
      [] x.t = "int" -> <<ToString(x.v)>>
      [] x.t = "bool" -> IF x.v THEN <<"True">> ELSE <<"False">>
      [] x.t = "NoneType" -> <<"None">>
      [] x.t = "MergeType" -> <<"MergeType.", x.v>>
      [] OTHER -> <<"<", x.t, ">">>

\* str.lower() on the tokens str(bool) gives
Lower(s) ==
    [i \in 1..Len(s) |->
        CASE s[i] = "True" -> "true"
          [] s[i] = "False" -> "false"
          [] OTHER -> s[i]]

\* sep.join(parts)
RECURSIVE Join(_, _)
Join(parts, sep) ==
    IF Len(parts) = 0 THEN <<>>
    ELSE IF Len(parts) = 1 THEN parts[1]
    ELSE parts[1] \o sep \o Join(Tail(parts), sep)

\* the outcome of a call: a value, or an exception raised
Ok(v) == [exc |-> "None", v |-> v]
Raise(e) == [exc |-> e, v |-> <<>>]

(***************************************************************************)
(* json.dumps                                                              *)
(***************************************************************************)
\* the string escapes of json.dumps: a newline becomes backslash-n
JsonEscape(s) == [i \in 1..Len(s) |-> IF s[i] = NL THEN "\\n" ELSE s[i]]

RECURSIVE json_dumps(_)
json_dumps(x) ==
    CASE x.t = "str" -> Ok(<<"\"">> \o JsonEscape(x.v) \o <<"\"">>)
      [] x.t = "MergeType" -> Ok(<<"\"", x.v, "\"">>)
      [] x.t = "int" -> Ok(<<ToString(x.v)>>)
      [] x.t = "bool" -> Ok(IF x.v THEN <<"true">> ELSE <<"false">>)
      [] x.t = "NoneType" -> Ok(<<"null">>)
      [] x.t = "dict" ->
           LET parts == [i \in 1..Len(x.v) |-> json_dumps(x.v[i][2])]
           IN  IF \E i \in 1..Len(x.v) : parts[i].exc # "None"
               THEN Raise("TypeError")
               ELSE Ok(<<"{">>
                       \o Join([i \in 1..Len(x.v) |->
                                  <<"\"", x.v[i][1], "\": ">> \o parts[i].v],
                               <<", ">>)
                       \o <<"}">>)
      [] x.t = "list" ->
           LET parts == [i \in 1..Len(x.v) |-> json_dumps(x.v[i])]
           IN  IF \E i \in 1..Len(x.v) : parts[i].exc # "None"
               THEN Raise("TypeError")
               ELSE Ok(<<"[">>
                       \o Join([i \in 1..Len(x.v) |-> parts[i].v], <<", ">>)
                       \o <<"]">>)
      [] OTHER -> Raise("TypeError")

(***************************************************************************)
(* DatastarEvent                                                           *)
(***************************************************************************)
\* the dataclass's fields, as the generated __init__ assigns them
DatastarEvent(content, merge, selector, settle_duration, use_view_transitions, redirect, error, event_type) ==
    [content |-> content, merge |-> merge, selector |-> selector,
     settle_duration |-> settle_duration,
     use_view_transitions |-> use_view_transitions,
     redirect |-> redirect, error |-> error, event_type |-> event_type]

\* the fields' defaults
DefaultEvent(content) ==
    DatastarEvent(content, PyNone, PyNone, PyNone, PyNone, PyNone, PyNone,
                  FRAGMENT)

\* create_signal(data)
create_signal(data) ==
    DatastarEvent(data, PyNone, PyNone, PyNone, PyNone, PyNone, PyNone, SIGNAL)

\* __post_init__: the assertion on the content's type
post_init(self) ==
    IF IsList(self.content) \/ IsStr(self.content) \/ IsDict(self.content)
    THEN Ok(<<>>)
    ELSE Raise("AssertionError")

\* data_lines: the optional lines (None when left out), then the fragment line
data_lines(self, merge, selector, frag) ==
    << IF Truthy(merge) THEN PyStr(<<"merge ", merge.v>>) ELSE PyNone,
       IF Truthy(selector)
          THEN PyStr(<<"selector ">> \o PyFormat(selector)) ELSE PyNone,
       IF Truthy(self.settle_duration)
          THEN PyStr(<<"settle ">> \o PyFormat(self.settle_duration))
          ELSE PyNone,
       IF self.use_view_transitions # PyNone
          THEN PyStr(<<"vt ">> \o Lower(PyFormat(self.use_view_transitions)))
          ELSE PyNone,
       IF Truthy(self.redirect)
          THEN PyStr(<<"redirect ">> \o PyFormat(self.redirect)) ELSE PyNone,
       IF Truthy(self.error)
          THEN PyStr(<<"error ">> \o PyFormat(self.error)) ELSE PyNone,
       PyStr(<<"fragment ">> \o PyFormat(frag)) >>

\* '\n'.join(f"data: {line}" for line in data_lines if line is not None)
join_data_lines(lines) ==
    LET kept == SelectSeq(lines, LAMBDA line : line # PyNone)
    IN  Join([i \in 1..Len(kept) |-> <<"data: ">> \o kept[i].v], <<NL>>)

\* the merge and selector an item is encoded with
effective_merge(self, fragment) ==
    IF IsDict(fragment)
    THEN PyOr(DictGet(fragment, "merge"), self.merge)
    ELSE self.merge

effective_selector(self, fragment) ==
    IF IsDict(fragment)
    THEN PyOr(DictGet(fragment, "selector"), self.selector)
    ELSE self.selector

\* an encoder that reads the fragment with get(): a missing key reads as None
_format_fragment_sse_get(self, fragment) ==
    LET merge == effective_merge(self, fragment)
        selector == effective_selector(self, fragment)
        frag == IF IsDict(fragment) THEN DictGet(fragment, "fragment") ELSE fragment
    IN  IF Truthy(merge) /\ merge.t # "MergeType"
        THEN Raise("AttributeError")
        ELSE Ok(join_data_lines(data_lines(self, merge, selector, frag)))

_format_fragment_sse(self, fragment) ==
    IF IsDict(fragment) /\ ~DictHas(fragment, "fragment")
    THEN Raise("KeyError")
    ELSE LET merge == effective_merge(self, fragment)
             selector == effective_selector(self, fragment)
             frag == IF IsDict(fragment) THEN DictGet(fragment, "fragment")
                     ELSE fragment
         IN  IF Truthy(merge) /\ merge.t # "MergeType"
             THEN Raise("AttributeError")
             ELSE Ok(join_data_lines(data_lines(self, merge, selector, frag)))

_format_signal_sse(data) ==
    IF IsDict(data)
    THEN LET js == json_dumps(data)
         IN  IF js.exc # "None" THEN js ELSE Ok(<<"data: ">> \o js.v)
    ELSE Ok(<<"data: ">> \o PyFormat(data))

format_sse(self, fragment) ==
    LET data == IF self.event_type = FRAGMENT
                THEN _format_fragment_sse(self, fragment)
                ELSE _format_signal_sse(fragment)
    IN  IF data.exc # "None" THEN data
        ELSE Ok(<<"event: ", self.event_type, NL>> \o data.v \o <<NL, NL>>)

\* what the generator of __aiter__ does when resumed after i yields
Yield(blk) == [kind |-> "yield", blk |-> blk, exc |-> "None"]
Stop == [kind |-> "stop", blk |-> <<>>, exc |-> "None"]
Throw(e) == [kind |-> "raise", blk |-> <<>>, exc |-> e]

\* an encoder that writes as it goes: on a failure the lines built so far go out
FormatStepPartial(self, item) ==
    LET r == format_sse(self, item)
    IN  IF r.exc # "None" THEN Yield(<<"event: ", self.event_type, NL>>)
        ELSE Yield(r.v)

FormatStep(self, item) ==
    LET r == format_sse(self, item)
    IN  IF r.exc # "None" THEN Throw(r.exc) ELSE Yield(r.v)

\* a generator that leaves out the last item of a list
aiter_step_short(self, i) ==
    IF IsStr(self.content) \/ IsDict(self.content)
    THEN IF i = 0 THEN FormatStep(self, self.content) ELSE Stop
    ELSE IF ~IsList(self.content) THEN Throw("TypeError")
    ELSE IF i + 1 < Len(self.content.v)
         THEN FormatStep(self, self.content.v[i + 1])
         ELSE Stop

aiter_step(self, i) ==
    IF IsStr(self.content) \/ IsDict(self.content)
    THEN IF i = 0 THEN FormatStep(self, self.content) ELSE Stop
    ELSE IF ~IsList(self.content) THEN Throw("TypeError")
    ELSE IF i < Len(self.content.v)
         THEN FormatStep(self, self.content.v[i + 1])
         ELSE Stop


(***************************************************************************)
(* The inputs: contents, events, payloads, sources                         *)
(***************************************************************************)
RECURSIVE SeqsUpTo(_, _)
SeqsUpTo(S, n) ==
    IF n = 0 THEN {<<>>}
    ELSE LET shorter == SeqsUpTo(S, n - 1)
         IN  shorter \cup {Append(s, x) : s \in {q \in shorter : Len(q) = n - 1}, x \in S}

Texts == SeqsUpTo({"x", NL}, MaxTextLen)

\* FragmentConfig dicts, each key there or not; the last lacks 'fragment'
FragmentDicts ==
    {PyDict(f \o m \o s) :
        f \in {<<>>, << <<"fragment", PyStr(<<>>)>> >>, << <<"fragment", PyStr(<<"x">>)>> >>},
        m \in {<<>>, << <<"merge", PyNone>> >>, << <<"merge", PyMerge("prepend_element")>> >>},
        s \in {<<>>, << <<"selector", PyStr(<<>>)>> >>, << <<"selector", PyStr(<<"#b">>)>> >>}}

\* signal mappings: serializable ones and one json.dumps rejects
SignalDicts ==
    {PyDict(<< <<"a", PyInt(1)>> >>),
     PyDict(<< <<"a", PyStr(<<"x", NL, "y">>)>>, <<"send", PyBool(TRUE)>> >>),
     PyDict(<< <<"a", PyObject>> >>)}

\* what a list content holds
Items ==
    {PyStr(<<"x">>), PyStr(<<>>),
     PyDict(<< <<"fragment", PyStr(<<"y">>)>>, <<"merge", PyMerge("prepend_element")>>,
               <<"selector", PyStr(<<"#b">>)>> >>),
     PyDict(<< <<"merge", PyMerge("prepend_element")>> >>),
     PyInt(5)}

Contents ==
    {PyStr(s) : s \in Texts} \cup FragmentDicts \cup SignalDicts
    \cup {PyList(xs) : xs \in SeqsUpTo(Items, MaxItems)}
    \cup {PyInt(5), PyNone}

OptMerge == {PyNone, PyMerge("inner_element"), PyMerge("prepend_element")}
OptSelector == {PyNone, PyStr(<<>>), PyStr(<<"#a">>)}
OptSettle == {PyNone, PyInt(0), PyInt(300)}
OptVt == {PyNone, PyBool(FALSE), PyBool(TRUE)}
OptRedirect == {PyNone, PyStr(<<>>), PyStr(<<"/r">>)}
OptError == {PyNone, PyStr(<<>>), PyStr(<<"e">>)}

\* create_fragment(content, **kwargs), and DatastarEvent(content, event_type=SIGNAL)
Events ==
    {DatastarEvent(c, m, s, d, v, r, e, FRAGMENT) :
        c \in Contents, m \in OptMerge, s \in OptSelector, d \in OptSettle,
        v \in OptVt, r \in OptRedirect, e \in OptError}
    \cup {create_signal(c) : c \in Contents}

\* what a source hands a loop
Payloads ==
    {PyStr(<<"x">>),
     PyList(<<PyStr(<<"x">>), PyStr(<<"y">>)>>),
     PyList(<<>>),
     PyList(<<PyStr(<<"x">>), PyDict(<< <<"selector", PyStr(<<"#b">>)>> >>)>>),
     PyInt(5)}

\* the fixed defaults create_sse_stream is called with
PumpTemplates ==
    {DefaultEvent(PyNone),
     DatastarEvent(PyNone, PyMerge("prepend_element"), PyStr(<<"#feeds">>), PyNone,
                   PyBool(FALSE), PyNone, PyNone, FRAGMENT),
     create_signal(PyNone)}

\* a source: an async generator (isgen) or another async iterator; n counts the
\* pulls it answered with a payload or an error, of which it has at most cap
Source(isgen, cap) == [isgen |-> isgen, st |-> "new", n |-> 0, cap |-> cap]
NoSource == [isgen |-> FALSE, st |-> "none", n |-> 0, cap |-> 0]
NoFails == [pull |-> 0, encode |-> 0]
NoConfig == [interval |-> 0, sleep_interval |-> 0, template |-> DefaultEvent(PyNone)]

(***************************************************************************)
(* Consuming one event: event.stream()                                     *)
(***************************************************************************)
\* a block handed downstream: the block, the clock then, the pull it came from
Emitted(blk, p, t) == [blk |-> blk, t |-> t, p |-> p]

\* task 1 runs; the other tasks of Tasks have not been started
Only1(x, idle) == [l \in Tasks |-> IF l = 1 THEN x ELSE idle]

\* the state after the dataclass's __init__ assigned the fields of one event
InitEncoder ==
    \E e \in Events :
        /\ kind = Only1("event", "none")
        /\ pc = Only1("construct", "none")
        /\ event = Only1(e, DefaultEvent(PyNone))
        /\ idx = Only1(0, 0)
        /\ out = Only1(<<>>, <<>>)
        /\ err = Only1("None", "None")
        /\ src = Only1(NoSource, NoSource)
        /\ cfg = Only1(NoConfig, NoConfig)
        /\ last_yield_time = Only1(0, 0)
        /\ current_time = Only1(0, 0)
        /\ lastEv = Only1("init", "none")
        /\ fails = Only1(NoFails, NoFails)
        /\ sleep_until = Only1(0, 0)
        /\ now = 0
        /\ gate = FALSE

\* __post_init__ runs at the end of construction
Construct(l) ==
    /\ kind[l] = "event" /\ pc[l] = "construct"
    /\ LET r == post_init(event[l])
       IN  IF r.exc # "None"
           THEN /\ pc' = [pc EXCEPT ![l] = "error"]
                /\ err' = [err EXCEPT ![l] = r.exc]
                /\ lastEv' = [lastEv EXCEPT ![l] = "raise"]
           ELSE /\ pc' = [pc EXCEPT ![l] = "ready"]
                /\ err' = err
                /\ lastEv' = [lastEv EXCEPT ![l] = "construct"]
    /\ UNCHANGED <<kind, event, idx, out, src, cfg, last_yield_time, current_time, fails, sleep_until, now, gate>>

\* stream(): a new generator of __aiter__, nothing run yet
Stream(l) ==
    /\ kind[l] = "event" /\ pc[l] = "ready"
    /\ pc' = [pc EXCEPT ![l] = "iter"]
    /\ idx' = [idx EXCEPT ![l] = 0]
    /\ lastEv' = [lastEv EXCEPT ![l] = "stream"]
    /\ UNCHANGED <<kind, event, out, err, src, cfg, last_yield_time, current_time, fails, sleep_until, now, gate>>

\* the consumer's next __anext__ on the generator
Anext(l) ==
    /\ kind[l] = "event" /\ pc[l] = "iter"
    /\ LET r == aiter_step(event[l], idx[l])
       IN  CASE r.kind = "yield" ->
                  /\ out' = [out EXCEPT ![l] = Append(@, Emitted(r.blk, 0, now))]
                  /\ idx' = [idx EXCEPT ![l] = @ + 1]
                  /\ lastEv' = [lastEv EXCEPT ![l] = "emit"]
                  /\ UNCHANGED <<pc, err>>
             [] r.kind = "stop" ->
                  /\ pc' = [pc EXCEPT ![l] = "done"]
                  /\ lastEv' = [lastEv EXCEPT ![l] = "stop"]
                  /\ UNCHANGED <<out, idx, err>>
             [] r.kind = "raise" ->
                  /\ pc' = [pc EXCEPT ![l] = "error"]
                  /\ err' = [err EXCEPT ![l] = r.exc]
                  /\ lastEv' = [lastEv EXCEPT ![l] = "raise"]
                  /\ UNCHANGED <<out, idx>>
    /\ UNCHANGED <<kind, event, src, cfg, last_yield_time, current_time, fails, sleep_until, now, gate>>

\* a second generator that takes up where the event's first one stands
StreamAgainShared(l, m) ==
    /\ kind[l] = "event" /\ pc[l] \in {"done", "error"}
    /\ post_init(event[l]).exc = "None"
    /\ kind[m] = "none"
    /\ kind' = [kind EXCEPT ![m] = "event"]
    /\ event' = [event EXCEPT ![m] = event[l]]
    /\ pc' = [pc EXCEPT ![m] = "iter"]
    /\ idx' = [idx EXCEPT ![m] = idx[l]]
    /\ lastEv' = [lastEv EXCEPT ![m] = "stream"]
    /\ UNCHANGED <<out, err, src, cfg, last_yield_time, current_time, fails, sleep_until, now, gate>>

\* stream() called again on the event of task l once its first generator has
\* finished: another generator of __aiter__ over the same object, consumed by
\* task m
StreamAgain(l, m) ==
    /\ kind[l] = "event" /\ pc[l] \in {"done", "error"}
    /\ post_init(event[l]).exc = "None"
    /\ kind[m] = "none"
    /\ kind' = [kind EXCEPT ![m] = "event"]
    /\ event' = [event EXCEPT ![m] = event[l]]
    /\ pc' = [pc EXCEPT ![m] = "iter"]
    /\ idx' = [idx EXCEPT ![m] = 0]
    /\ lastEv' = [lastEv EXCEPT ![m] = "stream"]
    /\ UNCHANGED <<out, err, src, cfg, last_yield_time, current_time, fails, sleep_until, now, gate>>

NextEncoder == \E l \in Tasks : Construct(l) \/ Stream(l) \/ Anext(l)

SpecEncoder == InitEncoder /\ [][NextEncoder]_vars

\* one event whose blocks are produced once, and then once more
NextRestream ==
    \/ NextEncoder
    \/ \E l, m \in Tasks : StreamAgain(l, m)

SpecRestream == InitEncoder /\ [][NextRestream]_vars


(***************************************************************************)
(* The streaming loops: DatastarStreamer.stream and create_sse_stream      *)
(***************************************************************************)
Loops == {"gated", "pump"}

\* a handler that gives up on the first failure
HandlerStopsOnError(exc) ==
    IF exc \in {"CancelledError", "GeneratorExit"} THEN "propagate" ELSE "break"

\* the two except clauses in the other order: Exception takes StopAsyncIteration too
HandlerExceptionFirst(exc) ==
    IF exc \in {"CancelledError", "GeneratorExit"} THEN "propagate" ELSE "continue"

\* the except clauses of DatastarStreamer.stream, in their order
Handler(exc) ==
    CASE exc = "StopAsyncIteration" -> "break"
      [] exc \in {"CancelledError", "GeneratorExit"} -> "propagate"
      [] OTHER -> "continue"

\* a pump that ends its sequence quietly on any failure
PumpHandlerSwallows(exc) == "break"

\* create_sse_stream has no try: async for ends on exhaustion, the rest propagates
PumpHandler(exc) == IF exc = "StopAsyncIteration" THEN "break" ELSE "propagate"

OnException(k, exc) == IF k = "gated" THEN Handler(exc) ELSE PumpHandler(exc)

\* the condition of the tick
Eligible(ct, lyt, interval, g) == ct - lyt >= interval /\ g

\* `and` calls condition_callable only when its left operand is true
GateCalled(ct, lyt, interval) == ct - lyt >= interval

\* a loop that sleeps sleep_interval whichever loop it is
SleepDurationIdle(l) == cfg[l].sleep_interval

\* the argument of the loop's asyncio.sleep: sleep_interval in the streamer,
\* interval in the pump
SleepDuration(l) ==
    IF kind[l] = "gated" THEN cfg[l].sleep_interval ELSE cfg[l].interval

\* one loop, just started, on task 1
InitLoop(k) ==
    \E iv \in 0..MaxInterval, sl \in SleepIntervals, t0 \in StartTimes,
       g \in BOOLEAN, isgen \in BOOLEAN, tpl \in PumpTemplates :
        /\ k = "gated" => tpl = DefaultEvent(PyNone)
        /\ k = "pump" => sl = 0
        /\ kind = Only1(k, "none")
        /\ pc = Only1(IF k = "gated" THEN "tick" ELSE "pull", "none")
        /\ event = Only1(DefaultEvent(PyNone), DefaultEvent(PyNone))
        /\ idx = Only1(0, 0)
        /\ out = Only1(<<>>, <<>>)
        /\ err = Only1("None", "None")
        /\ src = Only1([Source(isgen, MaxPulls) EXCEPT
                            !.st = IF k = "gated" THEN "new" ELSE "running"],
                       NoSource)
        /\ cfg = Only1([interval |-> iv, sleep_interval |-> sl, template |-> tpl], NoConfig)
        /\ last_yield_time = Only1(0, 0)
        /\ current_time = Only1(0, 0)
        /\ lastEv = Only1("start", "none")
        /\ fails = Only1(NoFails, NoFails)
        /\ sleep_until = Only1(0, 0)
        /\ now = t0
        /\ gate = g

Init == \E k \in Loops : InitLoop(k)

\* an exception raised in the loop's body reaches the loop's handlers
Caught(l, exc, what) ==
    LET h == OnException(kind[l], exc)
    IN  /\ pc' = [pc EXCEPT ![l] = CASE h = "continue" -> "tick"
                                     [] h = "break" -> "stopped"
                                     [] OTHER -> "failed"]
        /\ err' = [err EXCEPT ![l] = IF h = "propagate" THEN exc ELSE @]
        /\ lastEv' = [lastEv EXCEPT ![l] = what]
        /\ fails' = [fails EXCEPT ![l] =
                        CASE what = "fail_pull" -> [@ EXCEPT !.pull = @ + 1]
                          [] what = "fail_encode" -> [@ EXCEPT !.encode = @ + 1]
                          [] OTHER -> @]

\* a loop that keeps the time of its last emission where every loop reads it
AdvanceSharedStamp(l, ev, i, p, t) ==
    LET r == aiter_step(ev, i)
    IN  CASE r.kind = "yield" ->
               /\ out' = [out EXCEPT ![l] = Append(@, Emitted(r.blk, p, t))]
               /\ idx' = [idx EXCEPT ![l] = i + 1]
               /\ pc' = [pc EXCEPT ![l] = "yield"]
               /\ lastEv' = [lastEv EXCEPT ![l] = "emit"]
               /\ UNCHANGED <<err, last_yield_time, fails, sleep_until>>
          [] r.kind = "stop" ->
               /\ last_yield_time' =
                      IF kind[l] = "gated"
                      THEN [m \in Tasks |-> current_time[l]]
                      ELSE last_yield_time
               /\ idx' = [idx EXCEPT ![l] = i]
               /\ pc' = [pc EXCEPT ![l] = "sleep"]
               /\ sleep_until' = [sleep_until EXCEPT ![l] = t + SleepDuration(l)]
               /\ lastEv' = [lastEv EXCEPT ![l] = "emitted"]
               /\ UNCHANGED <<err, out, fails>>
          [] r.kind = "raise" ->
               /\ Caught(l, r.exc, "fail_encode")
               /\ idx' = [idx EXCEPT ![l] = i]
               /\ UNCHANGED <<out, last_yield_time, sleep_until>>

\* a loop that hands the first block of its first payload downstream twice
AdvanceRepeats(l, ev, i, p, t) ==
    LET r == aiter_step(ev, i)
    IN  CASE r.kind = "yield" ->
               /\ out' = [out EXCEPT ![l] = Append(@, Emitted(r.blk, p, t))]
               /\ idx' = [idx EXCEPT ![l] = IF Len(out[l]) < i + 1 THEN i ELSE i + 1]
               /\ pc' = [pc EXCEPT ![l] = "yield"]
               /\ lastEv' = [lastEv EXCEPT ![l] = "emit"]
               /\ UNCHANGED <<err, last_yield_time, fails, sleep_until>>
          [] r.kind = "stop" ->
               /\ last_yield_time' =
                      IF kind[l] = "gated"
                      THEN [last_yield_time EXCEPT ![l] = current_time[l]]
                      ELSE last_yield_time
               /\ idx' = [idx EXCEPT ![l] = i]
               /\ pc' = [pc EXCEPT ![l] = "sleep"]
               /\ sleep_until' = [sleep_until EXCEPT ![l] = t + SleepDuration(l)]
               /\ lastEv' = [lastEv EXCEPT ![l] = "emitted"]
               /\ UNCHANGED <<err, out, fails>>
          [] r.kind = "raise" ->
               /\ Caught(l, r.exc, "fail_encode")
               /\ idx' = [idx EXCEPT ![l] = i]
               /\ UNCHANGED <<out, last_yield_time, sleep_until>>

\* async for sse_data in event.stream(): resume the event's generator after i
\* yields, at time t, for the payload of pull p; then what follows in the body
Advance(l, ev, i, p, t) ==
    LET r == aiter_step(ev, i)
    IN  CASE r.kind = "yield" ->
               /\ out' = [out EXCEPT ![l] = Append(@, Emitted(r.blk, p, t))]
               /\ idx' = [idx EXCEPT ![l] = i + 1]
               /\ pc' = [pc EXCEPT ![l] = "yield"]
               /\ lastEv' = [lastEv EXCEPT ![l] = "emit"]
               /\ UNCHANGED <<err, last_yield_time, fails, sleep_until>>
          [] r.kind = "stop" ->
               /\ last_yield_time' =
                      IF kind[l] = "gated"
                      THEN [last_yield_time EXCEPT ![l] = current_time[l]]
                      ELSE last_yield_time
               /\ idx' = [idx EXCEPT ![l] = i]
               /\ pc' = [pc EXCEPT ![l] = "sleep"]
               /\ sleep_until' = [sleep_until EXCEPT ![l] = t + SleepDuration(l)]
               /\ lastEv' = [lastEv EXCEPT ![l] = "emitted"]
               /\ UNCHANGED <<err, out, fails>>
          [] r.kind = "raise" ->
               /\ Caught(l, r.exc, "fail_encode")
               /\ idx' = [idx EXCEPT ![l] = i]
               /\ UNCHANGED <<out, last_yield_time, sleep_until>>

\* the top of the while loop: read the clock, test the interval and the gate
Tick(l) ==
    /\ kind[l] = "gated" /\ pc[l] = "tick"
    /\ current_time' = [current_time EXCEPT ![l] = now]
    /\ IF Eligible(now, last_yield_time[l], cfg[l].interval, gate)
       THEN /\ pc' = [pc EXCEPT ![l] = "pull"]
            /\ src' = [src EXCEPT ![l].st = IF @ = "closed" THEN @ ELSE "running"]
            /\ lastEv' = [lastEv EXCEPT ![l] = "tick_pull"]
            /\ UNCHANGED sleep_until
       ELSE /\ pc' = [pc EXCEPT ![l] = "sleep"]
            /\ src' = src
            /\ sleep_until' = [sleep_until EXCEPT ![l] = now + SleepDuration(l)]
            /\ lastEv' = [lastEv EXCEPT ![l] =
                              IF GateCalled(now, last_yield_time[l], cfg[l].interval)
                              THEN "tick_gate_false" ELSE "tick_early"]
    /\ UNCHANGED <<kind, event, idx, out, err, cfg, last_yield_time, fails, now, gate>>

\* the source answers the pull with a payload; the event is built and its
\* first block, if any, is handed downstream
PullReturn(l) ==
    /\ kind[l] \in Loops /\ pc[l] = "pull"
    /\ src[l].st = "running" /\ src[l].n < src[l].cap
    /\ \E payload \in Payloads, d \in 0..MaxDelay :
        LET ev == [cfg[l].template EXCEPT !.content = payload]
        IN  /\ now + d <= MaxTime
            /\ now' = now + d
            /\ src' = [src EXCEPT ![l] = [@ EXCEPT !.st = "suspended", !.n = @ + 1]]
            /\ event' = [event EXCEPT ![l] = ev]
            /\ IF post_init(ev).exc # "None"
               THEN /\ Caught(l, post_init(ev).exc, "fail_encode")
                    /\ idx' = [idx EXCEPT ![l] = 0]
                    /\ UNCHANGED <<out, last_yield_time, sleep_until>>
               ELSE Advance(l, ev, 0, src[l].n + 1, now + d)
    /\ UNCHANGED <<kind, cfg, current_time, gate>>

\* the source raises on the pull; an async generator is finished by that
PullRaise(l) ==
    /\ kind[l] \in Loops /\ pc[l] = "pull"
    /\ src[l].st = "running" /\ src[l].n < src[l].cap
    /\ \E d \in 0..MaxDelay :
        /\ now + d <= MaxTime
        /\ now' = now + d
    /\ src' = [src EXCEPT ![l] = [@ EXCEPT !.st = IF src[l].isgen THEN "closed" ELSE "suspended",
                                           !.n = @ + 1]]
    /\ Caught(l, "ValueError", "fail_pull")
    /\ UNCHANGED <<kind, event, idx, out, cfg, last_yield_time, current_time, sleep_until, gate>>

\* the source is exhausted: StopAsyncIteration on the pull
PullExhaust(l) ==
    /\ kind[l] \in Loops /\ pc[l] = "pull"
    /\ src[l].st \in {"running", "closed"}
    /\ \E d \in 0..MaxDelay :
        /\ now + d <= MaxTime
        /\ now' = now + d
    /\ src' = [src EXCEPT ![l].st = "closed"]
    /\ Caught(l, "StopAsyncIteration", "exhausted")
    /\ UNCHANGED <<kind, event, idx, out, cfg, last_yield_time, current_time, sleep_until, gate>>

\* the consumer asks for the next block: the loop resumes after its yield
Resume(l) ==
    /\ kind[l] \in Loops /\ pc[l] = "yield"
    /\ \E c \in 0..MaxDelay :
        /\ now + c <= MaxTime
        /\ now' = now + c
        /\ Advance(l, event[l], idx[l], src[l].n, now + c)
    /\ UNCHANGED <<kind, event, src, cfg, current_time, gate>>

\* asyncio.sleep returns, when it is due or later
SleepDone(l) ==
    /\ kind[l] \in Loops /\ pc[l] = "sleep"
    /\ \E j \in Overshoots :
        LET due == IF now >= sleep_until[l] THEN now ELSE sleep_until[l]
        IN  /\ due + j <= MaxTime
            /\ now' = due + j
    /\ sleep_until' = [sleep_until EXCEPT ![l] = 0]
    /\ IF kind[l] = "gated"
       THEN /\ pc' = [pc EXCEPT ![l] = "tick"]
            /\ src' = src
       ELSE /\ pc' = [pc EXCEPT ![l] = "pull"]
            /\ src' = [src EXCEPT ![l].st = IF @ = "closed" THEN @ ELSE "running"]
    /\ lastEv' = [lastEv EXCEPT ![l] = "slept"]
    /\ UNCHANGED <<kind, event, idx, out, err, cfg, last_yield_time, current_time, fails, gate>>

\* the driving task is cancelled while the loop is suspended. CancelledError is
\* no Exception: no handler of the loop takes it. Awaiting the source, it is
\* thrown into the source; elsewhere the source is not touched.
Cancel(l) ==
    /\ kind[l] \in Loops /\ pc[l] \in {"pull", "yield", "sleep"}
    /\ pc' = [pc EXCEPT ![l] = "cancelled"]
    /\ err' = [err EXCEPT ![l] = "CancelledError"]
    /\ src' = [src EXCEPT ![l].st =
                  IF pc[l] = "pull" /\ @ = "running"
                  THEN (IF src[l].isgen THEN "closed" ELSE "suspended")
                  ELSE @]
    /\ lastEv' = [lastEv EXCEPT ![l] = "cancel"]
    /\ UNCHANGED <<kind, event, idx, out, cfg, last_yield_time, current_time, fails, sleep_until, now, gate>>

\* the loop has ended and dropped its reference to the source: when the
\* collector comes to it, the event loop's hook closes a suspended generator
Finalize(l) ==
    /\ kind[l] \in Loops /\ pc[l] \in {"cancelled", "failed", "stopped"}
    /\ src[l].isgen /\ src[l].st = "suspended"
    /\ src' = [src EXCEPT ![l].st = "closed"]
    /\ lastEv' = [lastEv EXCEPT ![l] = "finalize"]
    /\ UNCHANGED <<kind, pc, event, idx, out, err, cfg, last_yield_time, current_time, fails, sleep_until, now, gate>>

\* the collaborator flips the state the gate reads
ToggleGate ==
    /\ \E l \in Tasks : kind[l] = "gated"
    /\ gate' = ~gate
    /\ UNCHANGED <<kind, pc, event, idx, out, err, src, cfg, last_yield_time, current_time,
                   lastEv, fails, sleep_until, now>>

Next ==
    \/ \E l \in Tasks :
          \/ Tick(l) \/ PullReturn(l) \/ PullRaise(l) \/ PullExhaust(l)
          \/ Resume(l) \/ SleepDone(l) \/ Cancel(l) \/ Finalize(l)
    \/ ToggleGate

Spec == Init /\ [][Next]_vars

\* two loops started together, each by its own call with its own source: two
\* stream() calls of one DatastarStreamer, two create_sse_stream calls with the
\* same arguments, or one of each
InitTwo ==
    \E k \in {<<"gated", "gated">>, <<"gated", "pump">>, <<"pump", "pump">>} :
      LET iv == MaxInterval
          sl == 1
          t0 == 0
          g == TRUE
          isgen == TRUE
      IN
        /\ kind = k
        /\ pc = [l \in Tasks |-> IF k[l] = "gated" THEN "tick" ELSE "pull"]
        /\ event = [l \in Tasks |-> DefaultEvent(PyNone)]
        /\ idx = [l \in Tasks |-> 0]
        /\ out = [l \in Tasks |-> <<>>]
        /\ err = [l \in Tasks |-> "None"]
        /\ src = [l \in Tasks |->
                     [Source(isgen, MaxPullsTwo) EXCEPT
                         !.st = IF k[l] = "gated" THEN "new" ELSE "running"]]
        /\ cfg = [l \in Tasks |->
                     [interval |-> iv,
                      sleep_interval |-> IF k[l] = "gated" THEN sl ELSE 0,
                      template |-> DefaultEvent(PyNone)]]
        /\ last_yield_time = [l \in Tasks |-> 0]
        /\ current_time = [l \in Tasks |-> 0]
        /\ lastEv = [l \in Tasks |-> "start"]
        /\ fails = [l \in Tasks |-> NoFails]
        /\ sleep_until = [l \in Tasks |-> 0]
        /\ now = t0
        /\ gate = g

SpecTwo == InitTwo /\ [][Next]_vars

(***************************************************************************)
(* Claims about the loops                                                  *)
(***************************************************************************)

\* C1: in the gated streamer the blocks of two consecutive payloads are never
\* handed downstream less than interval apart (stated for the runs in which no
\* pull and no encoding failed).
C1_MinSpacing ==
    \A l \in Tasks :
        (kind[l] = "gated" /\ fails[l] = NoFails) =>
            \A i \in 1..(Len(out[l]) - 1) :
                out[l][i].p # out[l][i + 1].p
                    => out[l][i + 1].t - out[l][i].t >= cfg[l].interval

\* C2: in the gated streamer a failure of the pull or of the encoding does not
\* end the loop: nothing reaches the consumer and the loop is at its next tick.
C2_FailureKeepsPolling ==
    \A l \in Tasks :
        (kind[l] = "gated" /\ lastEv[l] \in {"fail_pull", "fail_encode"})
            => pc[l] = "tick" /\ err[l] = "None"

\* the source raised on the first pull and the payload of the second is emitted
C2_Witness ==
    \E l \in Tasks :
        /\ kind[l] = "gated" /\ fails[l] = [pull |-> 1, encode |-> 0] /\ src[l].n = 2
        /\ lastEv[l] = "emit" /\ Len(out[l]) = 1 /\ out[l][1].p = 2

\* the loop's terminal state: ended, nothing raised to the consumer, no pull under way
Stopped(l) ==
    /\ pc[l] = "stopped"
    /\ err[l] = "None"
    /\ src[l].st # "running"

\* C3: in both loops exhaustion of the source ends the sequence cleanly: the
\* loop is stopped with no error for the consumer, and once stopped it emits no
\* block and makes no pull.
C3_CleanExhaustion ==
    /\ [](\A l \in Tasks :
            (kind[l] \in Loops /\ lastEv[l] = "exhausted") => Stopped(l))
    /\ [][\A l \in Tasks :
            (kind[l] \in Loops /\ pc[l] = "stopped")
                => /\ Stopped(l)'
                   /\ out'[l] = out[l]
                   /\ src'[l].n = src[l].n]_vars

\* a loop that emitted a block has stopped on exhaustion
C3_Witness ==
    \E l \in Tasks :
        /\ kind[l] \in Loops /\ pc[l] = "stopped" /\ lastEv[l] = "exhausted"
        /\ Len(out[l]) >= 1

\* C4: when the driving task is cancelled the loop stops and the source
\* generator it pulled from is closed, never left open after the loop ended.
C4_SourceClosedOnCancel ==
    \A l \in Tasks :
        (kind[l] \in Loops /\ pc[l] = "cancelled" /\ src[l].isgen)
            => src[l].st \in {"new", "closed"}

(***************************************************************************)
(* Reading a block back: its lines, as a client splitting on newlines      *)
(***************************************************************************)
HasNL(s) == \E i \in 1..Len(s) : s[i] = NL

\* s.split("\n")
RECURSIVE SplitLines(_)
SplitLines(s) ==
    IF ~HasNL(s) THEN <<s>>
    ELSE LET i == CHOOSE j \in 1..Len(s) : s[j] = NL /\ \A h \in 1..(j - 1) : s[h] # NL
         IN  <<SubSeq(s, 1, i - 1)>> \o SplitLines(SubSeq(s, i + 1, Len(s)))

\* the lines between the event line and the two empty strings the terminator leaves
DataSection(blk) ==
    LET ls == SplitLines(blk) IN SubSeq(ls, 2, Len(ls) - 2)

\* event line, one or more "data: " lines, one blank line
WellFormedBlock(blk) ==
    LET ls == SplitLines(blk)
    IN  /\ Len(ls) >= 4
        /\ Len(ls[1]) = 2 /\ ls[1][1] = "event: " /\ ls[1][2] \in EventType
        /\ ls[Len(ls)] = <<>> /\ ls[Len(ls) - 1] = <<>>
        /\ \A i \in 2..(Len(ls) - 2) : Len(ls[i]) >= 1 /\ ls[i][1] = "data: "

\* the field a data line of a fragment block carries
FieldOf(line) == IF Len(line) >= 2 /\ line[1] = "data: " THEN line[2] ELSE "?"
Fields(blk) == LET ds == DataSection(blk) IN [i \in 1..Len(ds) |-> FieldOf(ds[i])]
HasField(blk, f) == \E i \in 1..Len(Fields(blk)) : Fields(blk)[i] = f
FieldValue(blk, f) ==
    LET ds == DataSection(blk)
        i == CHOOSE j \in 1..Len(ds) : FieldOf(ds[j]) = f
    IN  SubSeq(ds[i], 3, Len(ds[i]))

\* the wire order of the fields
FieldRank(f) ==
    CASE f = "selector " -> 1 [] f = "merge " -> 2 [] f = "settle " -> 3
      [] f = "vt " -> 4 [] f = "redirect " -> 5 [] f = "error " -> 6
      [] f = "fragment " -> 7 [] OTHER -> 0

\* the item block k of an event encodes
ItemAt(e, k) == IF IsList(e.content) THEN e.content.v[k] ELSE e.content

\* a Scalar or a Spec (a dict with its fragment), its text free of newlines
FragmentItem(item) ==
    \/ item.t = "str"
    \/ IsDict(item) /\ DictHas(item, "fragment") /\ DictGet(item, "fragment").t = "str"
PlainItem(item) ==
    LET text == IF IsDict(item) THEN DictGet(item, "fragment").v ELSE item.v
    IN  FragmentItem(item) /\ ~HasNL(text)

\* item.key ?? default
Resolved(item, key, default) ==
    IF IsDict(item) /\ DictGet(item, key) # PyNone THEN DictGet(item, key) ELSE default

\* the blocks of fragment events that encode a newline-free fragment item
PlainFragmentBlocks ==
    {<<l, k>> \in Tasks \X (1..(MaxItems + 1)) :
        /\ kind[l] = "event" /\ event[l].event_type = FRAGMENT
        /\ k <= Len(out[l])
        /\ PlainItem(ItemAt(event[l], k))}

(***************************************************************************)
(* Claims about the encoder                                                *)
(***************************************************************************)

\* C5: the data lines of a fragment block come in the order selector, merge,
\* settle, vt, redirect, error, fragment, and the fragment line is there and last.
C5_LineOrder ==
    \A b \in PlainFragmentBlocks :
        LET fs == Fields(out[b[1]][b[2]].blk)
        IN  /\ Len(fs) >= 1 /\ fs[Len(fs)] = "fragment "
            /\ \A i \in 1..(Len(fs) - 1) : FieldRank(fs[i]) < FieldRank(fs[i + 1])

\* C6: an optional field's line is in the block exactly when the field's
\* effective value is set, a falsy set value (0, "", False) included.
C6_LineIffSet ==
    \A b \in PlainFragmentBlocks :
        LET e == event[b[1]]
            item == ItemAt(e, b[2])
            blk == out[b[1]][b[2]].blk
        IN  /\ HasField(blk, "selector ") <=> (Resolved(item, "selector", e.selector) # PyNone)
            /\ HasField(blk, "merge ") <=> (Resolved(item, "merge", e.merge) # PyNone)
            /\ HasField(blk, "settle ") <=> (e.settle_duration # PyNone)
            /\ HasField(blk, "vt ") <=> (e.use_view_transitions # PyNone)
            /\ HasField(blk, "redirect ") <=> (e.redirect # PyNone)
            /\ HasField(blk, "error ") <=> (e.error # PyNone)
            /\ (e.use_view_transitions = PyBool(FALSE)
                   => FieldValue(blk, "vt ") = <<"false">>)

\* C7: the merge and the selector a block carries are the item's when the item
\* has one, and the event's default otherwise.
C7_ItemOverrides ==
    \A b \in PlainFragmentBlocks :
        LET e == event[b[1]]
            item == ItemAt(e, b[2])
            blk == out[b[1]][b[2]].blk
        IN  /\ HasField(blk, "merge ")
                  => FieldValue(blk, "merge ") = <<Resolved(item, "merge", e.merge).v>>
            /\ HasField(blk, "selector ")
                  => FieldValue(blk, "selector ") = Resolved(item, "selector", e.selector).v

\* the contents the data model allows: a Scalar, a Spec, Items of those, and for
\* a signal a string or a mapping of serializable values
ValidContent(e) ==
    IF e.event_type = FRAGMENT
    THEN \/ FragmentItem(e.content)
         \/ IsList(e.content)
              /\ \A k \in 1..Len(e.content.v) : FragmentItem(e.content.v[k])
    ELSE \/ e.content.t = "str"
         \/ IsDict(e.content) /\ json_dumps(e.content).exc = "None"

\* C8: producing the blocks of an event yields one block for a single Scalar,
\* Spec, signal string or signal mapping and N blocks for Items of size N,
\* block k being the encoding of item k.
C8_BlockPerItem ==
    \A l \in Tasks :
        (kind[l] = "event" /\ ValidContent(event[l])) =>
            LET e == event[l]
                n == IF IsList(e.content) THEN Len(e.content.v) ELSE 1
            IN  /\ pc[l] # "error"
                /\ Len(out[l]) <= n
                /\ pc[l] = "done" => Len(out[l]) = n
                /\ \A k \in 1..Len(out[l]) :
                       out[l][k].blk = format_sse(e, ItemAt(e, k)).v

\* an Items content of two or more items has been produced to the end
C8_Witness ==
    \E l \in Tasks :
        /\ kind[l] = "event" /\ pc[l] = "done" /\ ValidContent(event[l])
        /\ IsList(event[l].content) /\ Len(event[l].content.v) >= 2
        /\ Len(out[l]) = Len(event[l].content.v)
        /\ out[l][1].blk # out[l][2].blk

\* C9: every block is an event line, then one or more lines that start with
\* "data: ", then exactly one blank line, with no other line in between.
C9_BlockShape ==
    \A l \in Tasks : \A k \in 1..Len(out[l]) : WellFormedBlock(out[l][k].blk)

\* the shapes a kind allows, by type: Fragment a string, a dict or a list of
\* those; Signal a string or a dict
AllowedShape(e) ==
    IF e.event_type = FRAGMENT
    THEN \/ IsStr(e.content) \/ IsDict(e.content)
         \/ IsList(e.content)
              /\ \A k \in 1..Len(e.content.v) :
                     IsStr(e.content.v[k]) \/ IsDict(e.content.v[k])
    ELSE IsStr(e.content) \/ IsDict(e.content)

\* C10: an event whose content is not a shape its kind allows is rejected, so
\* that no block is ever produced for it.
C10_BadShapeRejected ==
    \A l \in Tasks :
        (kind[l] = "event" /\ ~AllowedShape(event[l])) => out[l] = <<>>

\* a spec-shaped item without its fragment key
MissingFragment(item) == IsDict(item) /\ ~DictHas(item, "fragment")

\* C11: in a fragment event a dict item without a fragment key is never encoded
\* into a block, be it the whole content or an element of a list: the event's
\* blocks never run to the end, and the generator resumed at that item raises
\* KeyError to its consumer.
C11_MissingFragmentRaises ==
    \A l \in Tasks :
        (kind[l] = "event" /\ event[l].event_type = FRAGMENT) =>
            LET e == event[l]
                n == IF IsList(e.content) THEN Len(e.content.v) ELSE 1
                missing == {k \in 1..n : MissingFragment(ItemAt(e, k))}
            IN  /\ \A k \in missing : Len(out[l]) < k
                /\ missing # {} => pc[l] # "done"
                /\ (pc[l] = "error" /\ idx[l] + 1 \in missing)
                       => err[l] = "KeyError" /\ lastEv[l] = "raise"

\* the second item of a list lacks its fragment: one block, then KeyError
C11_Witness ==
    \E l \in Tasks :
        /\ kind[l] = "event" /\ event[l].event_type = FRAGMENT
        /\ IsList(event[l].content) /\ Len(event[l].content.v) = 2
        /\ ~MissingFragment(event[l].content.v[1])
        /\ MissingFragment(event[l].content.v[2])
        /\ Len(out[l]) = 1 /\ pc[l] = "error" /\ err[l] = "KeyError"

BlockCount(e) == IF IsList(e.content) THEN Len(e.content.v) ELSE 1

\* the tail of out is the whole encoding of the current payload, in order
AllBlocksOut(l) ==
    LET e == event[l]
        n == BlockCount(e)
        base == Len(out[l]) - n
    IN  /\ idx[l] = n /\ base >= 0
        /\ \A k \in 1..n :
               /\ out[l][base + k].p = src[l].n
               /\ out[l][base + k].blk = format_sse(e, ItemAt(e, k)).v
        /\ \A k \in 1..base : out[l][k].p < src[l].n

\* C13: in the pump the steps of every payload come in the order pull, emit
\* all its blocks, sleep interval: the source is asked for a payload only at
\* the start and after a sleep that began once every block of the current
\* payload was out and that lasted at least interval.
C13_PumpOrder ==
    [][\A l \in Tasks :
          kind[l] = "pump" =>
              /\ (pc[l] # "pull" /\ pc'[l] = "pull")
                     => /\ pc[l] = "sleep" /\ AllBlocksOut(l)
                        /\ now' >= sleep_until[l]
                        /\ \A k \in 1..Len(out[l]) :
                               now' >= out[l][k].t + cfg[l].interval
              /\ (pc[l] # "sleep" /\ pc'[l] = "sleep") => AllBlocksOut(l)'
              /\ src'[l].n # src[l].n => pc[l] = "pull"]_vars

\* the second payload's first block is out, after the two blocks of the first
\* and a sleep of a positive interval
C13_Witness ==
    \E l \in Tasks :
        /\ kind[l] = "pump" /\ cfg[l].interval >= 1 /\ src[l].n = 2
        /\ Len(out[l]) = 3
        /\ out[l][1].p = 1 /\ out[l][2].p = 1 /\ out[l][3].p = 2

\* the step in which the gated loop of task l runs the top of its while loop
TickStep(l) == kind[l] = "gated" /\ pc[l] = "tick" /\ pc'[l] # "tick"

\* C14: in the gated streamer every tick that does not end the loop is
\* followed by a sleep of sleep_interval before the next tick begins, whichever
\* branch the tick took: the loop comes to a tick only out of a sleep that
\* lasted its time.
C14_SleepBeforeNextTick ==
    [][\A l \in Tasks :
          (kind[l] = "gated" /\ pc[l] # "tick" /\ pc'[l] = "tick")
              => pc[l] = "sleep" /\ now' >= sleep_until[l]]_vars

\* C15: in the gated streamer, before any emission the elapsed time counts as
\* infinite: a tick that finds the gate true when nothing was pulled or emitted
\* yet pulls, whatever the clock and the interval are.
C15_FirstTickFires ==
    [][\A l \in Tasks :
          (TickStep(l) /\ gate /\ out[l] = <<>> /\ src[l].n = 0)
              => pc'[l] = "pull"]_vars

\* the time since the loop last handed a block downstream is at least d;
\* before the first block it is infinite
ElapsedAtLeast(l, d) ==
    out[l] = <<>> \/ now - out[l][Len(out[l])].t >= d

\* C16: in the gated streamer a payload is requested only on a tick at which
\* the gate is true and at least interval has elapsed since the last emission,
\* the source is pulled only on such a request and a block is emitted only for
\* a pulled payload (stated for the runs in which no pull and no encoding
\* failed).
C16_PullOnlyWhenEligible ==
    [][\A l \in Tasks :
          (kind[l] = "gated" /\ fails[l] = NoFails) =>
              /\ (pc[l] # "pull" /\ pc'[l] = "pull")
                     => TickStep(l) /\ gate /\ ElapsedAtLeast(l, cfg[l].interval)
              /\ src'[l].n # src[l].n => pc[l] = "pull"
              /\ out'[l] # out[l] => pc[l] \in {"pull", "yield"}]_vars

\* nothing was pulled yet, or the last payload pulled has its blocks out and
\* the last of them went out at least d ago
EmissionDue(l, d) ==
    \/ out[l] = <<>> /\ src[l].n = 0
    \/ /\ out[l] # <<>> /\ out[l][Len(out[l])].p = src[l].n
       /\ now - out[l][Len(out[l])].t >= d

\* C18: in the gated streamer an emission that is due is made at the next
\* poll: a tick that comes out of a sleep_interval sleep and finds the gate
\* true, with at least interval elapsed since the last emission (or no
\* emission yet), pulls the next payload from a source that answers.
C18_ReactsAtNextPoll ==
    [][\A l \in Tasks :
          (TickStep(l) /\ lastEv[l] = "slept" /\ gate
                /\ EmissionDue(l, cfg[l].interval) /\ fails[l] = NoFails)
              => pc'[l] = "pull"]_vars

\* C20: in the gated streamer every tick calls the gate, the ticks at which
\* less than interval has elapsed included: no tick goes to its sleep without
\* having called condition_callable.
C20_GateCalledEveryTick ==
    \A l \in Tasks : kind[l] = "gated" => lastEv[l] # "tick_early"

\* a whole block: the event line, a first data line, the blank line at the end
CompleteBlock(blk) ==
    /\ Len(blk) >= 6
    /\ blk[1] = "event: " /\ blk[2] \in EventType /\ blk[3] = NL
    /\ blk[4] = "data: "
    /\ blk[Len(blk) - 1] = NL /\ blk[Len(blk)] = NL

Locals(l) ==
    <<kind[l], pc[l], event[l], idx[l], out[l], err[l], src[l], cfg[l],
      last_yield_time[l], current_time[l], lastEv[l], fails[l], sleep_until[l]>>

C21_SourceOrder ==
    /\ [](\A l \in Tasks :
            kind[l] \in Loops =>
                /\ \A k \in 1..Len(out[l]) :
                       /\ out[l][k].p >= 1 /\ out[l][k].p <= src[l].n
                       /\ k < Len(out[l]) => out[l][k].p <= out[l][k + 1].p
                /\ idx[l] <= Len(out[l]) /\ idx[l] <= BlockCount(event[l])
                /\ \A k \in 1..Len(out[l]) :
                       IF k <= Len(out[l]) - idx[l]
                       THEN idx[l] > 0 => out[l][k].p < out[l][Len(out[l])].p
                       ELSE /\ out[l][k].p = out[l][Len(out[l])].p
                            /\ out[l][k].blk
                                  = format_sse(event[l],
                                       ItemAt(event[l], k - (Len(out[l]) - idx[l]))).v
                /\ (kind[l] = "pump" /\ src[l].n >= 1
                        /\ pc[l] \in {"pull", "sleep", "stopped"})
                       => AllBlocksOut(l))
    /\ [][\A l \in Tasks :
            out'[l] # out[l] =>
                /\ Len(out'[l]) = Len(out[l]) + 1
                /\ SubSeq(out'[l], 1, Len(out[l])) = out[l]
                /\ out'[l][Len(out'[l])].p = src'[l].n
                /\ idx'[l] = 1 =>
                       \A k \in 1..Len(out[l]) : out[l][k].p < src'[l].n]_vars

\* two payloads went out in turn, two blocks and then one
C21_Witness ==
    \E l \in Tasks :
        /\ kind[l] \in Loops /\ src[l].n = 2 /\ Len(out[l]) = 3
        /\ out[l][1].p = 1 /\ out[l][2].p = 1 /\ out[l][3].p = 2
        /\ out[l][1].blk # out[l][2].blk
        /\ pc[l] \in {"sleep", "stopped"}

\* C22: in the pump a failure of a pull or of an encoding is not recovered: the
\* step that fails emits nothing, the failure is what the consumer gets, the
\* pump has ended, and from then on it emits no block, pulls nothing and
\* stays ended with the same failure; it fails once at most.
C22_PumpFailurePropagates ==
    /\ [](\A l \in Tasks :
            (kind[l] = "pump" /\ fails[l] # NoFails) =>
                /\ pc[l] = "failed"
                /\ err[l] \notin {"None", "StopAsyncIteration", "CancelledError"}
                /\ fails[l].pull + fails[l].encode = 1)
    /\ [][\A l \in Tasks :
            kind[l] = "pump" =>
                /\ fails'[l] # fails[l] =>
                       out'[l] = out[l] /\ lastEv'[l] \in {"fail_pull", "fail_encode"}
                /\ fails[l] # NoFails =>
                       /\ out'[l] = out[l] /\ pc'[l] = pc[l] /\ err'[l] = err[l]
                       /\ src'[l].n = src[l].n /\ fails'[l] = fails[l]]_vars

\* a pump that had put out a block ended on a failure
C22_Witness ==
    \E l \in Tasks :
        /\ kind[l] = "pump" /\ pc[l] = "failed" /\ out[l] # <<>>
        /\ fails[l] # NoFails /\ err[l] # "None"

====
